---- MODULE Spec2Model ----
(***************************************************************************)
(* Model of pygeoapi/process/metrics.py: the WOUDC metrics processor.      *)
(*                                                                         *)
(* A caller owns one inputs mapping and hands it to                        *)
(* MetricsProcessor.execute, possibly more than once.  execute pops the    *)
(* two mandatory keys and dispatches on the domain; metrics_dataset builds *)
(* the base aggregation query, wraps it once per supplied filter, sends it *)
(* to the search index and unwraps the response.                           *)
(*                                                                         *)
(* Python dictionaries that the code shares by reference (the query        *)
(* dictionaries and their 'aggregations' mappings) live on a heap, so that *)
(* aliasing and in-place mutation are observable.  The search index is the *)
(* external Elasticsearch client: a call either raises or returns a        *)
(* response in the Elasticsearch aggregation response format, whose        *)
(* structure is modelled as the set of key paths of the 'aggregations'     *)
(* object (bucket counts and sums are abstracted to their keys).           *)
(***************************************************************************)
EXTENDS Integers, Sequences, FiniteSets, TLC

VARIABLES
    inputs,     \* the caller's inputs mapping (a dict, mutated by execute)
    entered,    \* history: the mapping as it was at each entry of execute
    calls,      \* history: number of execute calls made on the mapping
    index,      \* self.index
    es,         \* self.es
    pc,         \* position of the processor inside execute
    timescale,  \* local of execute / metrics_dataset
    kwargs,     \* **kwargs of metrics_dataset
    qheap,      \* heap of query dictionaries {'size', 'aggregations'}
    aheap,      \* heap of 'aggregations' dictionaries (name -> node)
    query,      \* local 'query' of metrics_dataset: a reference into qheap
    i,          \* position of the running for loop in filterables
    response,   \* local 'response' of metrics_dataset
    sent,       \* search calls issued by the current execute call
    trace,      \* history: wrap_filter / search / unwrap_filter calls, in order
    result,     \* value returned by execute to the caller
    error       \* exception raised by execute to the caller ("none" if none)

vars == <<inputs, entered, calls, index, es, pc, timescale, kwargs, qheap,
          aheap, query, i, response, sent, trace, result, error>>

\* Bounds of the model.
NumValues == 2
MaxCalls == 2

\* Free-text filter values a request may carry.
ValueNames == <<"CAN", "Brewer", "STN", "TEMIS", "XYZ">>
Values == {ValueNames[n] : n \in 1..NumValues}

\* Values a caller may pass for the two mandatory inputs: the options of
\* PROCESS_SETTINGS and one value outside them.
DomainOptions == {"dataset", "contributor"}
TimescaleOptions == {"year", "month"}
DomainInputs == DomainOptions \cup {"usage"}
TimescaleInputs == TimescaleOptions \cup {"day"}
FilterInputs == {"dataset", "country", "station", "network"}

\* provider_def['elastic_path'].split('/') for a path scheme://host/index.
url_tokens == <<"http:", "", "localhost:9200", "woudc_data_registry">>

\* ------------------------------------------------------------------------
\* Values.

\* No value (an unset local, or nothing returned).
Unset == [kind |-> "unset", aggregations |-> {}]
\* Python None.
None == [kind |-> "None", aggregations |-> {}]
\* The empty dict {}.
EmptyDict == [kind |-> "dict", aggregations |-> {}]

\* A pop that reads the key and leaves the dict as it is.
pop_keep(d, k) == d

\* d.pop(k) for a key that is present: the dict without the key.
pop(d, k) == [x \in (DOMAIN d) \ {k} |-> d[x]]

\* list.reverse()
Reverse(s) == [n \in 1..Len(s) |-> s[Len(s) + 1 - n]]

\* A node of an aggregation query.  'aggregations' is a reference into the
\* heap of aggregation dictionaries, 0 when the node has no such key.
Node(kind, field, value, interval, format, aggregations) ==
    [kind |-> kind, field |-> field, value |-> value, interval |-> interval,
     format |-> format, aggregations |-> aggregations]

\* A one-entry dictionary {name: node}.
Dict1(name, node) == [x \in {name} |-> node]

\* ------------------------------------------------------------------------
\* wrap_filter

property_to_field ==
    [dataset |-> "properties.content_category",
     country |-> "properties.platform_country",
     station |-> "properties.platform_id",
     network |-> "properties.instrument_name"]

\* wrap_filter that updates the query dictionary it was given instead of
\* building a wrapper.
wrap_filter_inplace(qh, ah, q, prop, value) ==
    [qheap |-> [qh EXCEPT ![q].aggregations = Len(ah) + 1],
     aheap |-> Append(ah, Dict1(prop, Node("filter", property_to_field[prop],
                                           value, "", "",
                                           qh[q].aggregations))),
     ret |-> q]

\* wrap_filter that keys the new aggregation by the document field
\* instead of the property name.
wrap_filter_byfield(qh, ah, q, prop, value) ==
    [qheap |-> Append(qh, [size |-> 0, aggregations |-> Len(ah) + 1]),
     aheap |-> Append(ah, Dict1(property_to_field[prop],
                                Node("filter", property_to_field[prop],
                                     value, "", "", qh[q].aggregations))),
     ret |-> Len(qh) + 1]

\* wrap_filter(query, prop, value) on the heap <<qh, ah>>, query being the
\* reference q.  Two dictionaries are allocated: the wrapper and its
\* 'aggregations' mapping {prop: {...}}; the new filter node refers to the
\* very 'aggregations' dictionary of the query it was given.
wrap_filter(qh, ah, q, prop, value) ==
    LET field == property_to_field[prop]
        wrapper == [size |-> 0, aggregations |-> Len(ah) + 1]
    IN  [qheap |-> Append(qh, wrapper),
         aheap |-> Append(ah, Dict1(prop, Node("filter", field, value, "", "",
                                               qh[q].aggregations))),
         ret |-> Len(qh) + 1]

\* ------------------------------------------------------------------------
\* The response of the search index, as the set of key paths below its
\* 'aggregations' object.

TopKeys(paths) == {p[1] : p \in {x \in paths : Len(x) > 0}}

Below(paths, key) == {Tail(p) : p \in {x \in paths : Len(x) > 0 /\ x[1] = key}}

Under(prefix, paths) == {prefix \o p : p \in paths}

\* unwrap_filter(response, category), for a category that is a key of
\* response['aggregations'] (any other category raises KeyError, which the
\* caller of this operator decides): a shallow copy of the response whose
\* 'aggregations' is the content of that key.
unwrap_filter(resp, category) ==
    [resp EXCEPT !.aggregations = Below(resp.aggregations, category)]

\* ------------------------------------------------------------------------
\* The base query of metrics_dataset.

date_interval(ts) == IF ts = "year" THEN "1y" ELSE "1M"

date_format(ts) == IF ts = "year" THEN "yyyy" ELSE "yyyy-MM"

\* '{}ly'.format(timescale)
date_aggregation_name(ts) == IF ts = "year" THEN "yearly" ELSE "monthly"

\* query_core and query of metrics_dataset, allocated on an empty heap:
\* aggregation dictionaries 1..4 from the innermost outwards, and the query
\* dictionary 1.
base_query(ts) ==
    [qheap |-> << [size |-> 0, aggregations |-> 4] >>,
     aheap |-> <<
        Dict1("total_obs",
              Node("sum", "properties.number_of_observations", "", "", "", 0)),
        Dict1(date_aggregation_name(ts),
              Node("date_histogram", "properties.timestamp_date", "",
                   date_interval(ts), date_format(ts), 1)),
        Dict1("levels", Node("terms", "properties.content_level", "", "", "", 2)),
        Dict1("total_files",
              Node("terms", "properties.content_category.keyword", "", "", "", 3))
     >>,
     ret |-> 1]

filterables == <<"country", "station", "network">>

\* The second loop running over filterables as the first one did.
unreversed_filterables == filterables

\* filterables.reverse()
reversed_filterables == Reverse(filterables)

\* ------------------------------------------------------------------------
\* self.es.search(index=..., body=query)

RECURSIVE Tree(_, _)
\* The aggregations reachable from the aggregation dictionary r, as the
\* JSON document the client serialises: a set of named nodes.
Tree(ah, r) ==
    IF r = 0 THEN {}
    ELSE {[name |-> n, kind |-> ah[r][n].kind, field |-> ah[r][n].field,
           value |-> ah[r][n].value, interval |-> ah[r][n].interval,
           format |-> ah[r][n].format,
           subs |-> Tree(ah, ah[r][n].aggregations)] : n \in DOMAIN ah[r]}

\* The request body for the query dictionary q.
Body(qh, ah, q) == [size |-> qh[q].size, aggregations |-> Tree(ah, qh[q].aggregations)]

RECURSIVE Respond(_)
\* Key paths of the Elasticsearch response to a set of aggregations: a
\* filter aggregation answers {doc_count, <sub-aggregations>}, a terms
\* aggregation {doc_count_error_upper_bound, sum_other_doc_count, buckets:
\* [{key, doc_count, <sub-aggregations>}]}, a date_histogram {buckets:
\* [{key_as_string, key, doc_count, <sub-aggregations>}]}, a sum {value}.
Respond(tree) ==
    UNION {
        CASE n.kind = "filter" ->
                {<<n.name, "doc_count">>} \cup Under(<<n.name>>, Respond(n.subs))
          [] n.kind = "terms" ->
                {<<n.name, "doc_count_error_upper_bound">>,
                 <<n.name, "sum_other_doc_count">>,
                 <<n.name, "buckets", "key">>,
                 <<n.name, "buckets", "doc_count">>}
                \cup Under(<<n.name, "buckets">>, Respond(n.subs))
          [] n.kind = "date_histogram" ->
                {<<n.name, "buckets", "key_as_string">>,
                 <<n.name, "buckets", "key">>,
                 <<n.name, "buckets", "doc_count">>}
                \cup Under(<<n.name, "buckets">>, Respond(n.subs))
          [] OTHER -> {<<n.name, "value">>}
        : n \in tree}

\* A successful search: the response to the body.
Search(idx, body) == [kind |-> "response", aggregations |-> Respond(body.aggregations)]

\* ------------------------------------------------------------------------
\* The state machine.

Absent == "<absent>"

\* The mapping with the given values, a key being left out when its value
\* is Absent.
Request(d, t, f) ==
    LET all == [k \in {"domain", "timescale"} \cup FilterInputs |->
                    IF k = "domain" THEN d
                    ELSE IF k = "timescale" THEN t ELSE f[k]]
    IN  [k \in {x \in DOMAIN all : all[x] # Absent} |-> all[k]]

\* The mappings a caller may hand to execute.
Requests ==
    {Request(d, t, f) : d \in DomainInputs \cup {Absent},
                        t \in TimescaleInputs \cup {Absent},
                        f \in [FilterInputs -> Values \cup {Absent}]}

NoArgs == [k \in {} |-> ""]

\* State after MetricsProcessor.__init__ succeeded (ping answered, version
\* at least 7), with a mapping the caller has prepared.
Init ==
    /\ inputs \in Requests
    /\ entered = <<>>
    /\ calls = 0
    /\ index = url_tokens[Len(url_tokens)]
    /\ es = [host |-> url_tokens[3]]
    /\ pc = "idle"
    /\ timescale = ""
    /\ kwargs = NoArgs
    /\ qheap = <<>>
    /\ aheap = <<>>
    /\ query = 0
    /\ i = 0
    /\ response = Unset
    /\ sent = <<>>
    /\ trace = <<>>
    /\ result = Unset
    /\ error = "none"

\* The caller gets an exception.
Raise(e) ==
    /\ error' = e
    /\ result' = Unset
    /\ pc' = "done"

\* The caller gets a value.
ReturnValue(v) ==
    /\ error' = "none"
    /\ result' = v
    /\ pc' = "done"

\* execute(inputs), up to the call of metrics_dataset or
\* metrics_contributor: the two pops and the dispatch on the domain.
Execute ==
    /\ pc \in {"idle", "done"}
    /\ calls < MaxCalls
    /\ calls' = calls + 1
    /\ entered' = Append(entered, inputs)
    /\ qheap' = <<>> /\ aheap' = <<>> /\ query' = 0 /\ i' = 0
    /\ response' = Unset /\ sent' = <<>> /\ trace' = <<>>
    /\ UNCHANGED <<index, es>>
    /\ IF "domain" \notin DOMAIN inputs
       THEN /\ Raise("KeyError")
            /\ timescale' = "" /\ kwargs' = NoArgs
            /\ UNCHANGED inputs
       ELSE IF "timescale" \notin DOMAIN inputs
       THEN /\ inputs' = pop(inputs, "domain")
            /\ Raise("KeyError")
            /\ timescale' = "" /\ kwargs' = NoArgs
       ELSE /\ inputs' = pop(pop(inputs, "domain"), "timescale")
            /\ timescale' = inputs["timescale"]
            /\ IF inputs["domain"] = "dataset"
               THEN /\ kwargs' = inputs'
                    /\ pc' = "metrics_dataset"
                    /\ error' = "none" /\ result' = Unset
               ELSE IF inputs["domain"] = "contributor"
               THEN /\ kwargs' = [k \in {"dataset", "station", "network"} |->
                                    IF k \in DOMAIN inputs' THEN inputs'[k]
                                    ELSE "None"]
                    /\ pc' = "metrics_contributor"
                    /\ error' = "none" /\ result' = Unset
               ELSE /\ kwargs' = NoArgs
                    /\ ReturnValue(None)

\* metrics_contributor: returns {}.
MetricsContributor ==
    /\ pc = "metrics_contributor"
    /\ ReturnValue(EmptyDict)
    /\ UNCHANGED <<inputs, entered, calls, index, es, timescale, kwargs, qheap,
                   aheap, query, i, response, sent, trace>>

\* metrics_dataset, up to the first for loop: the timescale branches and
\* the base query.  With a timescale that is neither 'year' nor 'month',
\* date_interval is read unbound when query_core is built.
BuildQuery ==
    /\ pc = "metrics_dataset"
    /\ IF timescale \in TimescaleOptions
       THEN /\ qheap' = base_query(timescale).qheap
            /\ aheap' = base_query(timescale).aheap
            /\ query' = base_query(timescale).ret
            /\ i' = 1
            /\ pc' = "wrap"
            /\ UNCHANGED <<result, error>>
       ELSE /\ Raise("UnboundLocalError")
            /\ UNCHANGED <<qheap, aheap, query, i>>
    /\ UNCHANGED <<inputs, entered, calls, index, es, timescale, kwargs,
                   response, sent, trace>>

\* One iteration of "for category in filterables".
WrapStep ==
    /\ pc = "wrap"
    /\ LET category == filterables[i]
       IN  IF category \in DOMAIN kwargs
           THEN LET w == wrap_filter(qheap, aheap, query, category,
                                     kwargs[category])
                IN  /\ qheap' = w.qheap
                    /\ aheap' = w.aheap
                    /\ query' = w.ret
                    /\ trace' = Append(trace, [op |-> "wrap_filter",
                                               arg |-> category])
           ELSE UNCHANGED <<qheap, aheap, query, trace>>
    /\ i' = i + 1
    /\ pc' = IF i = Len(filterables) THEN "search" ELSE "wrap"
    /\ UNCHANGED <<inputs, entered, calls, index, es, timescale, kwargs,
                   response, sent, result, error>>

\* self.es.search answers; filterables is reversed for the second loop.
SearchOK ==
    /\ pc = "search"
    /\ sent' = Append(sent, [index |-> index, body |-> Body(qheap, aheap, query)])
    /\ trace' = Append(trace, [op |-> "search", arg |-> index])
    /\ response' = Search(index, Body(qheap, aheap, query))
    /\ i' = 1
    /\ pc' = "unwrap"
    /\ UNCHANGED <<inputs, entered, calls, index, es, timescale, kwargs, qheap,
                   aheap, query, result, error>>

\* self.es.search raises; nothing in metrics_dataset or execute catches it.
SearchFail ==
    /\ pc = "search"
    /\ sent' = Append(sent, [index |-> index, body |-> Body(qheap, aheap, query)])
    /\ trace' = Append(trace, [op |-> "search", arg |-> index])
    /\ Raise("ElasticsearchException")
    /\ UNCHANGED <<inputs, entered, calls, index, es, timescale, kwargs, qheap,
                   aheap, query, i, response>>

\* One iteration of the second "for category in filterables".
UnwrapStep ==
    /\ pc = "unwrap"
    /\ LET category == reversed_filterables[i]
       IN  IF category \notin DOMAIN kwargs
           THEN /\ pc' = IF i = Len(filterables) THEN "return" ELSE "unwrap"
                /\ i' = i + 1
                /\ UNCHANGED <<response, trace, result, error>>
           ELSE /\ trace' = Append(trace, [op |-> "unwrap_filter",
                                           arg |-> category])
                /\ IF category \in TopKeys(response.aggregations)
                   THEN /\ response' = unwrap_filter(response, category)
                        /\ pc' = IF i = Len(filterables) THEN "return"
                                 ELSE "unwrap"
                        /\ i' = i + 1
                        /\ UNCHANGED <<result, error>>
                   ELSE /\ Raise("KeyError")
                        /\ UNCHANGED <<response, i>>
    /\ UNCHANGED <<inputs, entered, calls, index, es, timescale, kwargs, qheap,
                   aheap, query, sent>>

\* return response
Return ==
    /\ pc = "return"
    /\ ReturnValue(response)
    /\ UNCHANGED <<inputs, entered, calls, index, es, timescale, kwargs, qheap,
                   aheap, query, i, response, sent, trace>>

Next ==
    \/ Execute
    \/ MetricsContributor
    \/ BuildQuery
    \/ WrapStep
    \/ SearchOK
    \/ SearchFail
    \/ UnwrapStep
    \/ Return

Spec == Init /\ [][Next]_vars

\* ------------------------------------------------------------------------
\* Properties.

\* The arguments of the calls of one operation, in call order.
ArgsOf(op) ==
    LET sel == SelectSeq(trace, LAMBDA e : e.op = op)
    IN  [n \in 1..Len(sel) |-> sel[n].arg]

\* The filterables present in kwargs, in the order of filterables.
Applied == SelectSeq(filterables, LAMBDA c : c \in DOMAIN kwargs)

\* The mapping as the running (or last) execute call received it.
before == IF entered = <<>> THEN NoArgs ELSE entered[Len(entered)]

\* The request entered with both mandatory keys.
WellFormed == {"domain", "timescale"} \subseteq DOMAIN before

RECURSIVE FilterChain(_)
\* Names of the filter nodes of a query from the top level inwards, as long
\* as a level consists of exactly one filter node.
FilterChain(tree) ==
    IF Cardinality(tree) = 1 /\ (\A n \in tree : n.kind = "filter")
    THEN LET n == CHOOSE x \in tree : TRUE
         IN  <<n.name>> \o FilterChain(n.subs)
    ELSE <<>>

RECURSIVE FilterCore(_)
\* What the innermost node of the filter chain wraps.
FilterCore(tree) ==
    IF Cardinality(tree) = 1 /\ (\A n \in tree : n.kind = "filter")
    THEN FilterCore((CHOOSE x \in tree : TRUE).subs)
    ELSE tree

\* The aggregations of the unfiltered base query, and the response the
\* index gives when that query is executed directly.
BaseTree ==
    Body(base_query(timescale).qheap, base_query(timescale).aheap,
         base_query(timescale).ret).aggregations
BaseResponse ==
    Search(index, Body(base_query(timescale).qheap, base_query(timescale).aheap,
                       base_query(timescale).ret))

\* C1: round trip.  When metrics_dataset returns, after wrapping the base
\* query once per supplied filter and unwrapping the response in the
\* reverse order, the aggregations of the returned response equal those of
\* the response to the unfiltered base query: nothing of the filter layers
\* is left at the top level.
C1_RoundTrip ==
    (pc = "done" /\ result.kind = "response")
        => result.aggregations = BaseResponse.aggregations

\* C2 as stated: the first dimension wrapped is the outermost node of the
\* query that is sent, the last one wrapped the innermost.
C2_FirstWrappedOutermost ==
    (pc = "search")
        => /\ FilterChain(Body(qheap, aheap, query).aggregations)
                = ArgsOf("wrap_filter")
           /\ FilterCore(Body(qheap, aheap, query).aggregations) = BaseTree

\* C2 amended: wrap_filter is called for the supplied dimensions in the
\* order country, station, network; in the query that is sent the last
\* dimension wrapped is the outermost aggregation node and the first one
\* wrapped is the innermost filter node, the one directly wrapping the
\* aggregations of the base query.
C2_LastWrappedOutermost ==
    (pc = "search")
        => /\ ArgsOf("wrap_filter") = Applied
           /\ FilterChain(Body(qheap, aheap, query).aggregations)
                = Reverse(ArgsOf("wrap_filter"))
           /\ FilterCore(Body(qheap, aheap, query).aggregations) = BaseTree

\* The query is about to be sent with all three filters wrapped.
C2_Witness ==
    /\ pc = "search"
    /\ ArgsOf("wrap_filter") = filterables
    /\ FilterChain(Body(qheap, aheap, query).aggregations)
            = <<"network", "station", "country">>

\* C3: in metrics_dataset every wrap_filter call precedes the search call
\* and every unwrap_filter call follows it; wrap_filter is called once per
\* supplied filter and for no other; when the response is returned the
\* unwrapped dimensions are the wrapped ones in reverse order; and whenever
\* unwrap_filter is about to be called, its category is a key at the top
\* aggregation level of the current response.
C3_WrapSearchUnwrap ==
    /\ \A j \in 1..Len(trace) : \A k \in (j + 1)..Len(trace) :
          /\ trace[j].op = "search" => trace[k].op = "unwrap_filter"
          /\ trace[j].op = "unwrap_filter" => trace[k].op = "unwrap_filter"
    /\ pc \in {"search", "unwrap", "return"} => ArgsOf("wrap_filter") = Applied
    /\ (pc = "unwrap" /\ reversed_filterables[i] \in DOMAIN kwargs)
          => reversed_filterables[i] \in TopKeys(response.aggregations)
    /\ (pc = "unwrap" \/ pc = "return")
          => /\ Len(ArgsOf("unwrap_filter")) <= Len(ArgsOf("wrap_filter"))
             /\ ArgsOf("unwrap_filter")
                  = SubSeq(Reverse(ArgsOf("wrap_filter")), 1,
                           Len(ArgsOf("unwrap_filter")))
    /\ (pc = "return" \/ (pc = "done" /\ result.kind = "response"))
          => /\ ArgsOf("unwrap_filter") = Reverse(ArgsOf("wrap_filter"))
             /\ Len(ArgsOf("search")) = 1

\* A response came back for a request with all three filters and all three
\* layers were unwrapped.
C3_Witness ==
    /\ pc = "done"
    /\ result.kind = "response"
    /\ ArgsOf("wrap_filter") = <<"country", "station", "network">>
    /\ ArgsOf("unwrap_filter") = <<"network", "station", "country">>

\* C4: a wrap_filter call leaves every dictionary that existed before the
\* call as it was (the input query included), and returns a new query
\* dictionary whose only top-level aggregation is keyed by prop, filters
\* on the registered field and the given value, and whose nested
\* aggregations are the aggregations of the input query.
C4_WrapFilterFrame ==
    [][(pc = "wrap" /\ filterables[i] \in DOMAIN kwargs)
        => LET prop == filterables[i]
               top == aheap'[qheap'[query'].aggregations]
           IN  /\ SubSeq(qheap', 1, Len(qheap)) = qheap
               /\ SubSeq(aheap', 1, Len(aheap)) = aheap
               /\ query' \notin DOMAIN qheap
               /\ query' \in DOMAIN qheap'
               /\ qheap'[query'].size = 0
               /\ DOMAIN top = {prop}
               /\ top[prop].kind = "filter"
               /\ top[prop].field = property_to_field[prop]
               /\ top[prop].value = kwargs[prop]
               /\ top[prop].aggregations = qheap[query].aggregations
               /\ Tree(aheap', top[prop].aggregations)
                    = Tree(aheap, qheap[query].aggregations)
               /\ Body(qheap', aheap', query) = Body(qheap, aheap, query)
      ]_vars

\* A query that was already wrapped once has been wrapped again, and the
\* dictionary of the first wrapper is still on the heap.
C4_Witness ==
    /\ pc \in {"wrap", "search"}
    /\ Len(ArgsOf("wrap_filter")) = 2
    /\ Len(qheap) = 3
    /\ query = 3

\* C5: a call of execute whose domain is neither 'dataset' nor
\* 'contributor' ends in an InvalidArgument error, returns nothing and
\* sends no query.
C5_UnsupportedDomainRaises ==
    (pc = "done" /\ WellFormed /\ before["domain"] \notin DomainOptions)
        => /\ error = "InvalidArgument"
           /\ result = Unset
           /\ sent = <<>>

\* C6: a call of execute with domain 'dataset' whose timescale is neither
\* 'year' nor 'month' sends no query, returns nothing and ends in an
\* InvalidArgument error.
C6_UnknownTimescaleRaises ==
    (WellFormed /\ before["domain"] = "dataset"
                /\ before["timescale"] \notin TimescaleOptions)
        => /\ sent = <<>>
           /\ result = Unset
           /\ pc = "done" => error = "InvalidArgument"

\* C7: a request that carries a filter its domain does not permit is
\* rejected with InvalidArgument before any query is sent.  Stated for the
\* domain whose permitted filters the code spells out: filterables of
\* metrics_dataset leaves out 'dataset', the grouping dimension of the
\* domain dataset.
C7_ForbiddenFilterRejected ==
    (WellFormed /\ before["timescale"] \in TimescaleOptions
                /\ before["domain"] = "dataset"
                /\ "dataset" \in DOMAIN before)
        => /\ sent = <<>>
           /\ result = Unset
           /\ pc = "done" => error = "InvalidArgument"

\* C8: when the search call fails, its error reaches the caller as it is,
\* no unwrap_filter call is made and nothing is returned; and every call
\* of execute ends either in an error or with the response of the index
\* from which every applied filter layer has been stripped.
C8_NoPartialResults ==
    /\ (pc = "done" /\ sent # <<>> /\ response = Unset)
          => /\ error = "ElasticsearchException"
             /\ result = Unset
             /\ ArgsOf("unwrap_filter") = <<>>
    /\ pc = "done"
          => \/ error # "none" /\ result = Unset
             \/ /\ error = "none"
                /\ result.kind = "response"
                /\ ArgsOf("unwrap_filter") = Reverse(ArgsOf("wrap_filter"))
                /\ TopKeys(result.aggregations) \cap FilterInputs = {}

\* C9: a call of execute with a supported domain and a valid timescale has
\* sent exactly one query when it ends.
C9_ExactlyOneQuery ==
    (pc = "done" /\ WellFormed /\ before["domain"] \in DomainOptions
                 /\ before["timescale"] \in TimescaleOptions)
        => Len(sent) = 1

\* C10: no step of execute changes self.index or self.es; the entry of
\* execute keeps every entry of the caller's mapping other than 'domain'
\* and 'timescale', adds none, and removes both keys when the mapping
\* carries both; no later step touches the mapping; and an execute call on
\* a mapping that went through execute before ends in KeyError without a
\* query being sent.
C10_ExecuteFrame ==
    [][/\ index' = index
       /\ es' = es
       /\ IF calls' = calls + 1
          THEN /\ \A k \in (DOMAIN inputs) \ {"domain", "timescale"} :
                     k \in DOMAIN inputs' /\ inputs'[k] = inputs[k]
               /\ DOMAIN inputs' \subseteq DOMAIN inputs
               /\ {"domain", "timescale"} \subseteq DOMAIN inputs
                     => DOMAIN inputs' = (DOMAIN inputs) \ {"domain", "timescale"}
               /\ calls >= 1
                     => error' = "KeyError" /\ pc' = "done" /\ sent' = <<>>
          ELSE inputs' = inputs
      ]_vars

\* A mapping that carried both mandatory keys and a filter was executed
\* twice: the second call found neither key and failed, the filter entry
\* is still there.
C10_Witness ==
    /\ calls = 2
    /\ pc = "done"
    /\ error = "KeyError"
    /\ sent = <<>>
    /\ {"domain", "timescale", "country"} \subseteq DOMAIN entered[1]
    /\ DOMAIN inputs = (DOMAIN entered[1]) \ {"domain", "timescale"}
    /\ inputs["country"] = entered[1]["country"]

====
